---- MODULE Spec2Model ----
(***************************************************************************)
(* Model of the Mod Organizer exporter plugin (mo_exporter): the resolver  *)
(* collect_mod_file_paths, the folder engine export_mods_to_folder, the    *)
(* archive engine export_as_zip and the display() entry points of the four *)
(* tools.                                                                  *)
(*                                                                         *)
(* A name is a tuple of characters, a path is a tuple of names.  The file  *)
(* system is one function from absolute paths to nodes, so that sources    *)
(* and targets live in the same name space, as on disk.                    *)
(***************************************************************************)
EXTENDS Integers, Sequences, FiniteSets, TLC

\* ------------------------------------------------------------------ bounds
\* Largest number of active mods the host reports.
MaxMods == 2
\* Largest number of entries (files and folders) in one mod's file tree.
MaxEntries == 2

\* ------------------------------------------------------------------ names and paths
A == <<"a">>
D == <<"d">>
\* Entry names at the top of a mod tree, and below a folder of it.
TopNames == {A, D}
SubNames == {A}
\* Relative paths of the entries a mod tree can hold.
RelPaths == {<<n>> : n \in TopNames} \cup {<<n, s>> : n \in TopNames, s \in SubNames}

\* Folder names of the mods, by priority position.
ModLetters == <<"B", "P", "Q", "R">>
ModFolder(k) == <<ModLetters[k]>>
ModsDir == <<"m", "o", "d", "s">>
\* An empty folder outside the mods, offered as export target.
OutDir == << <<"o", "u", "t">> >>
ModsPath == <<ModsDir>>
\* An empty folder on another storage volume than the mods.
FarDir == << <<"f", "a", "r">> >>

Parent(p) == SubSeq(p, 1, Len(p) - 1)
IsPrefix(q, p) == Len(q) <= Len(p) /\ SubSeq(p, 1, Len(q)) = q
\* The storage volume a path lies on.
Volume(p) == IF IsPrefix(FarDir, p) THEN "far" ELSE "near"
\* The path of p relative to root (p lies under root).
RelativeTo(p, root) == SubSeq(p, Len(root) + 1, Len(p))

Sep == "/"
\* str(relative): the names joined by the path separator.
RECURSIVE Str(_)
Str(p) ==
    IF p = <<>> THEN <<>>
    ELSE IF Len(p) = 1 THEN p[1]
    ELSE p[1] \o <<Sep>> \o Str(Tail(p))

\* fnmatch.fnmatch(name, glob): shell-style match of the whole name; "*" matches
\* any run of characters (the separator included), "?" any one character.
RECURSIVE fnmatch(_, _)
fnmatch(name, glob) ==
    IF glob = <<>> THEN name = <<>>
    ELSE IF Head(glob) = "*"
         THEN fnmatch(name, Tail(glob)) \/ (name # <<>> /\ fnmatch(Tail(name), glob))
    ELSE /\ name # <<>>
         /\ (Head(glob) = "?" \/ Head(glob) = Head(name))
         /\ fnmatch(Tail(name), Tail(glob))

\* any(fnmatch.fnmatch(relative_str, glob) for glob in file_filter)
Filtered(relative, filter) ==
    \E g \in 1..Len(filter) : fnmatch(Str(relative), filter[g])

\* ------------------------------------------------------------------ mod file trees
\* An entry of a mod's file tree: its path below the mod root and its kind.
Entries == [rel : RelPaths, dir : BOOLEAN]

\* A file tree: at most one entry per path, and every entry below the top
\* level lies in a folder of the same tree.
WellFormed(t) ==
    /\ \A e, f \in t : e.rel = f.rel => e = f
    /\ \A e \in t : Len(e.rel) > 1 => [rel |-> Parent(e.rel), dir |-> TRUE] \in t

Trees == {t \in SUBSET Entries : Cardinality(t) <= MaxEntries /\ WellFormed(t)}

\* The trees the export runs are checked on: a file, a folder holding a file,
\* a file named like that folder, an empty folder.
ExportTrees ==
    { {[rel |-> <<A>>, dir |-> FALSE]},
      {[rel |-> <<D>>, dir |-> TRUE], [rel |-> <<D, A>>, dir |-> FALSE]},
      {[rel |-> <<D>>, dir |-> FALSE]},
      {[rel |-> <<D>>, dir |-> TRUE]} }

\* Mods without files (a separator, an empty mod) and a mod with one file.
SparseTrees == { {}, {[rel |-> <<A>>, dir |-> FALSE]} }

\* The exclusion filters the export runs are checked on ("filter" setting,
\* one glob per line).
FilterLists ==
    { <<>>, << <<"*", "d">> >>, << <<"*", "a">> >>, << <<"d">>, <<"*", "a">> >> }

ModSequences(trees) == UNION {[1..n -> trees] : n \in 0..MaxMods}

\* ------------------------------------------------------------------ file system
\* mod.absolutePath()
ModRoot(k) == <<ModsDir, ModFolder(k)>>

DirNode == [kind |-> "dir", data |-> <<>>, ino |-> <<>>]
\* A regular file: its bytes and the identity of the inode holding them.
FileNode(data, ino) == [kind |-> "file", data |-> data, ino |-> ino]
OldData == << <<"o", "l", "d">> >>

\* Path.exists(), Path.is_dir()
exists(f, p) == p \in DOMAIN f
is_dir(f, p) == p \in DOMAIN f /\ f[p].kind = "dir"

\* The non-empty prefixes of p, p included.
Prefixes(p) == {SubSeq(p, 1, n) : n \in 1..Len(p)}

\* The files and folders of the mods on disk, as the host's file trees show them.
SourceFs(ms) ==
    LET dirs == {ModsPath, OutDir, FarDir} \cup {ModRoot(k) : k \in 1..Len(ms)}
        ents == {<<k, e>> : k \in 1..Len(ms), e \in UNION {ms[j] : j \in 1..Len(ms)}}
        srcs == {x \in ents : x[2] \in ms[x[1]]}
        node(p) ==
            IF p \in dirs THEN DirNode
            ELSE LET x == CHOOSE y \in srcs : ModRoot(y[1]) \o y[2].rel = p
                 IN  IF x[2].dir THEN DirNode ELSE FileNode(p, p)
    IN  [p \in dirs \cup {ModRoot(x[1]) \o x[2].rel : x \in srcs} |-> node(p)]

\* Path.mkdir(parents=True, exist_ok=True) fails when a prefix is a regular file.
mkdir_fails(f, p) == \E q \in Prefixes(p) : exists(f, q) /\ ~is_dir(f, q)
\* ... and otherwise creates every missing prefix as a folder.
mkdir_parents(f, p) ==
    [q \in DOMAIN f \cup Prefixes(p) |-> IF q \in DOMAIN f THEN f[q] ELSE DirNode]

\* Path.unlink()
unlink(f, p) == [q \in DOMAIN f \ {p} |-> f[q]]
\* Path.hardlink_to(source): a second name for the source's inode.
hardlink_to(f, p, source) == [q \in DOMAIN f \cup {p} |-> IF q = p THEN f[source] ELSE f[q]]
\* shutil.copy2(source, target): a new file with the source's bytes.
copy2(f, source, p) ==
    [q \in DOMAIN f \cup {p} |-> IF q = p THEN FileNode(f[source].data, p) ELSE f[q]]

\* ------------------------------------------------------------------ plugin settings
\* compression_level.setRange(-1, 9)
MinLevel == -1
MaxLevel == 9
\* Changes the user makes to the widgets of a dialog before leaving it.
MaxEdits == 1

\* A mobase.MoVariant: what the host hands out for a setting.
BoolV(b) == [type |-> "bool", b |-> b, s |-> "", n |-> 0]
StrV(s) == [type |-> "str", b |-> FALSE, s |-> s, n |-> 0]
IntV(n) == [type |-> "int", b |-> FALSE, s |-> "", n |-> n]
NoneV == [type |-> "none", b |-> FALSE, s |-> "", n |-> 0]

\* class ZipCompressionMethod(enum.IntEnum): the names
ZipCompressionMethod == {"ZIP_STORED", "ZIP_DEFLATED", "ZIP_BZIP2", "ZIP_LZMA"}
ExportTypes == {"mod-content", "mod-folder"}
\* Texts of the "Exclude" field.
FilterTexts == {"", "*a"}

SettingKeys ==
    {"export-overwrite", "export-separators", "export-type", "hardlinks",
     "overwrite-exiting", "filter", "compression", "compression-level"}

\* settings(): the default of each setting.
DefaultSettings ==
    [key \in SettingKeys |->
        CASE key = "export-overwrite" -> BoolV(FALSE)
          [] key = "export-separators" -> BoolV(FALSE)
          [] key = "export-type" -> StrV("mod-content")
          [] key = "hardlinks" -> BoolV(FALSE)
          [] key = "overwrite-exiting" -> BoolV(TRUE)
          [] key = "filter" -> StrV("")
          [] key = "compression" -> StrV("ZIP_DEFLATED")
          [] key = "compression-level" -> IntV(MinLevel)]

\* The settings a dialog of the tool reads when it is built.
KeysRead(t) ==
    IF t = "folder"
    THEN {"export-overwrite", "export-separators", "export-type", "hardlinks",
          "overwrite-exiting", "filter"}
    ELSE {"export-overwrite", "export-separators", "export-type", "filter",
          "compression", "compression-level"}

\* A value of the setting's type and, where the setting is a name or a level,
\* one of the names or levels the plugin knows.
ValidSetting(key, v) ==
    CASE key \in {"export-overwrite", "export-separators", "hardlinks",
                  "overwrite-exiting"} -> v.type = "bool"
      [] key = "export-type" -> v.type = "str" /\ v.s \in ExportTypes
      [] key = "filter" -> v.type = "str"
      [] key = "compression" -> v.type = "str" /\ v.s \in ZipCompressionMethod
      [] key = "compression-level" -> v.type = "int" /\ v.n \in MinLevel..MaxLevel

\* The values a setting can be found to hold: of any type, names unknown to
\* the plugin and levels out of range included.
MoVariants ==
    {BoolV(b) : b \in BOOLEAN}
    \cup {StrV(x) : x \in ExportTypes \cup ZipCompressionMethod \cup FilterTexts \cup {"bogus"}}
    \cup {IntV(n) : n \in (MinLevel - 1)..(MaxLevel + 1)}
    \cup {NoneV}

\* The stores the dialog can find: every setting at its default but one.
PersistedSettings(t) ==
    {[DefaultSettings EXCEPT ![key] = v] : key \in KeysRead(t), v \in MoVariants}

Digits == <<"0", "1", "2", "3", "4", "5", "6", "7", "8", "9">>
\* str(n) of an int
RECURSIVE IntStr(_)
IntStr(n) ==
    IF n < 0 THEN "-" \o IntStr(-n)
    ELSE IF n < 10 THEN Digits[n + 1]
    ELSE IntStr(n \div 10) \o Digits[(n % 10) + 1]

\* str(value)
str(v) ==
    CASE v.type = "str" -> v.s
      [] v.type = "bool" -> IF v.b THEN "True" ELSE "False"
      [] v.type = "int" -> IntStr(v.n)
      [] v.type = "none" -> "None"

\* Option.__init__: self.setChecked(get_setting(setting) is True)
Option_checked(v) == v.type = "bool" /\ v.b

\* ExportTypeBox._add_export_type: the radio button that gets checked.
export_type_checked(v) ==
    IF v.type = "str" /\ v.s = "mod-content" THEN "mod-content" ELSE "mod-folder"

\* ZipExporter._compression: the name looked up in the enum, KeyError caught.
compression(v) == IF str(v) \in ZipCompressionMethod THEN str(v) ELSE "ZIP_DEFLATED"

\* The compresslevel argument of zipfile.ZipFile: None (left to the codec) or a level.
NoLevel == [omitted |-> TRUE, level |-> 0]
Level(n) == [omitted |-> FALSE, level |-> n]

\* ZipExporter._compression_level: isinstance(setting, int) and setting > 0;
\* a bool is an int in Python, True > 0.
compression_level(v) ==
    IF v.type = "int" /\ v.n > 0 THEN Level(v.n)
    ELSE IF v.type = "bool" /\ v.b THEN Level(1)
    ELSE NoLevel

\* compression_level.setValue(self._compression_level or -1), within the range.
spin_box_value(v) ==
    LET l == compression_level(v)
        n == IF l.omitted \/ l.level = 0 THEN -1 ELSE l.level
    IN  IF n > MaxLevel THEN MaxLevel ELSE IF n < MinLevel THEN MinLevel ELSE n

\* Path(path).drive of the folders the file dialog can show.
Drives == {"C:", "D:"}
\* Path(self._organizer.modsPath()).drive
modsPath_drive == "C:"
NoDrive == "no path"

\* hardlinks_enabled is isEnabled() of the "Use Hardlinks" box, path_drive the
\* drive of the path of the last directoryEntered or fileSelected signal.
NoWidgets ==
    [built |-> FALSE, edits |-> 0, overwrite |-> FALSE, separators |-> FALSE,
     hardlinks |-> FALSE, overwrite_existing |-> FALSE, export_type |-> "mod-content",
     filter |-> "", compression |-> "ZIP_DEFLATED", level |-> MinLevel,
     hardlinks_enabled |-> TRUE, path_drive |-> NoDrive]
\* active_mods are the names of the mods handed to the export, target_drive
\* the drive of the folder the dialog returned.
NoCall ==
    [made |-> FALSE, contents |-> FALSE, overwrite_existing |-> FALSE,
     hardlinks |-> FALSE, filter |-> "", compression |-> "ZIP_DEFLATED",
     compresslevel |-> NoLevel, include_separators |-> FALSE, active_mods |-> <<>>,
     target_drive |-> NoDrive]

\* ------------------------------------------------------------------ mod infos
\* What the host tells about a mod: mod.name(), mod.url(), mod.nexusId(),
\* mod.version().displayString().
ModUrls == {"", "https://example.org/mod"}
NexusIds == {-1, 0, 7}
VersionStrings == {"", "1.2.3"}
ModInfo(k) ==
    [name : {ModLetters[k]}, url : ModUrls, nexusId : NexusIds, version : VersionStrings]
\* A mod the host knows by its name only.
PlainInfo(k) == [name |-> ModLetters[k], url |-> "", nexusId |-> 0, version |-> ""]
\* self._organizer.managedGame().gameNexusName()
gameNexusName == "skyrim"

\* ------------------------------------------------------------------ the host's mod list
\* Largest number of mods in the host's list, inactive ones included.
MaxHostMods == 3
\* A mod of the list: its name, whether modlist.state(mod) has the ACTIVE
\* flag, whether modlist.getMod(mod).isSeparator().
HostMod(k) == [name : {ModLetters[k]}, active : BOOLEAN, separator : BOOLEAN]
\* modlist.allModsByProfilePriority(), with what the host tells of each name.
HostLists ==
    UNION {{f \in [1..n -> UNION {HostMod(k) : k \in 1..n}] :
               \A k \in 1..n : f[k] \in HostMod(k)} : n \in 0..MaxHostMods}

reversed(q) == [k \in 1..Len(q) |-> q[Len(q) + 1 - k]]

\* ------------------------------------------------------------------ state
VARIABLES
    tool,               \* the menu command invoked
    mods,               \* the host's active mods in priority order: their file trees
    pc,                 \* where the command stands
    outcome,            \* how the command ended
    run,                \* 1 for the first export, 2 for a repeated one
    contents,           \* export_mods_to_folder(contents=...); zip: not include_mod_folder
    overwrite_existing,
    hardlinks,
    file_filter,        \* the "filter" setting, split into lines
    file_filter_str,    \* file_filter was passed as one str: file_filter[1], or ""
    target_path,
    fs,                 \* the file system
    fs0,                \* the file system when the current export run started
    paths,              \* dict[Path, Path] in insertion order
    ci,                 \* collect_mod_file_paths: mods walked or being walked
    walked,             \* entries of mods[ci] the walker has seen
    i,                  \* entries of paths the export loop has gone through
    skipped_files,
    overwritten_files,
    progress_value,     \* QProgressDialog.value()
    written,            \* relative paths whose target this run created or wrote
    wasCanceled_calls,  \* times the export loop asked progress.wasCanceled()
    outcomes,           \* the branch of the loop body each entry gone through took
    report,             \* the "Export Complete" message box and its numbers
    info,               \* QMessageBox.information text
    dialog,             \* a file dialog was opened
    zip_file,           \* the archive's members
    zip_state,          \* "none", "open" or "closed"
    completed,          \* export_as_zip's return value
    qInfo_log,          \* export_mod_files_as_zip logged "mods exported"
    zip_exits,          \* times the with block of the archive was left (ZipFile.close)
    md_file,            \* the Markdown file: whether written, and its lines
    clipboard,          \* the clipboard: whether set, and its lines
    settings,           \* the host's store of this plugin's settings: key -> value
    widgets,            \* the option widgets of the export dialog
    call,               \* the options the export was called with after the dialog
    queries,            \* what each call of active_mods() of this command yielded
    set_setting_calls,  \* the keys set_setting was called with, in order
    modinfo,            \* the host's name, url, nexus id and version of each active mod
    modlist,            \* the host's mod list by profile priority: name, state, kind
    helper,             \* the ModListHelper: reverse_order, include_separators
    mi,                 \* active_mod_names: host mods the loop has gone through
    yielded             \* active_mod_names: the names yielded so far

dialogVars == <<settings, widgets, call, queries, set_setting_calls>>
helperVars == <<modlist, helper, mi, yielded>>
hostVars == <<tool, mods, dialogVars, modinfo, helperVars, file_filter_str>>
argVars == <<contents, overwrite_existing, hardlinks, file_filter, target_path>>
collectVars == <<paths, ci, walked>>
loopVars == <<i, skipped_files, overwritten_files, progress_value, written,
             wasCanceled_calls, outcomes>>
zipVars == <<zip_file, zip_state, completed, qInfo_log, zip_exits>>
mdVars == <<md_file, clipboard>>
vars == <<tool, mods, pc, outcome, run, contents, overwrite_existing, hardlinks,
          file_filter, target_path, fs, fs0, paths, ci, walked, i, skipped_files,
          overwritten_files, progress_value, written, wasCanceled_calls, outcomes,
          report, info, dialog, zip_file, zip_state, completed, qInfo_log, zip_exits,
          md_file, clipboard, settings, widgets, call, queries, set_setting_calls, modinfo, modlist, helper,
          mi, yielded, file_filter_str>>

None == "none"
NoActiveMods == "No active mods!"
Tools == {"folder", "zip", "markdown", "clip"}
NoReport == [shown |-> FALSE, mods |-> 0, exported |-> 0, overwritten |-> 0, skipped |-> 0]
NoText == [written |-> FALSE, lines |-> <<>>]

\* No export has run: the arguments at their defaults, the disk holding the
\* mods, nothing collected or exported.
InitRun(is_str) ==
    /\ outcome = None
    /\ run = 1
    /\ overwrite_existing = TRUE
    /\ hardlinks = FALSE
    /\ file_filter = <<>>
    /\ file_filter_str = is_str
    /\ target_path = OutDir
    /\ fs = SourceFs(mods)
    /\ fs0 = fs
    /\ paths = <<>>
    /\ ci = 0
    /\ walked = {}
    /\ i = 0
    /\ skipped_files = <<>>
    /\ overwritten_files = <<>>
    /\ progress_value = -1
    /\ written = {}
    /\ wasCanceled_calls = 0
    /\ outcomes = <<>>
    /\ report = NoReport
    /\ info = None
    /\ dialog = FALSE
    /\ zip_file = <<>>
    /\ zip_state = "none"
    /\ completed = TRUE
    /\ qInfo_log = FALSE
    /\ zip_exits = 0
    /\ md_file = NoText
    /\ clipboard = NoText

\* The active mods have any of the given trees.
InitArgs(trees, is_str) ==
    /\ mods \in ModSequences(trees)
    /\ InitRun(is_str)

\* ... the filter being passed as a list, as display passes it.
InitWith(trees) == InitArgs(trees, FALSE)

\* No ModListHelper is at work.
NoHelper ==
    /\ modlist = <<>>
    /\ helper = [reverse_order |-> FALSE, include_separators |-> FALSE]
    /\ mi = 0
    /\ yielded = <<>>

\* The host knows the mods by their names only.
PlainMods ==
    /\ modinfo = [k \in 1..Len(mods) |-> PlainInfo(k)]
    /\ NoHelper

\* The settings are as installed and no dialog was built.
NoDialog ==
    /\ settings = DefaultSettings
    /\ widgets = NoWidgets
    /\ call = NoCall
    /\ queries = <<>>
    /\ set_setting_calls = <<>>

\* A menu command is invoked.
Init ==
    /\ InitWith(ExportTrees)
    /\ NoDialog
    /\ PlainMods
    /\ tool \in Tools
    /\ pc = "display"
    /\ contents = TRUE

\* A menu command is invoked while mods without files are active.
InitSparse ==
    /\ InitWith(SparseTrees)
    /\ NoDialog
    /\ PlainMods
    /\ tool \in Tools
    /\ pc = "display"
    /\ contents = TRUE

\* An export command is invoked on one active mod, with one setting of the
\* store holding any value.
InitSettings ==
    /\ InitWith({ {[rel |-> <<A>>, dir |-> FALSE]} })
    /\ Len(mods) = 1
    /\ tool \in {"folder", "zip"}
    /\ pc = "display"
    /\ contents = TRUE
    /\ settings \in PersistedSettings(tool)
    /\ widgets = NoWidgets
    /\ call = NoCall
    /\ queries = <<>>
    /\ set_setting_calls = <<>>
    /\ modinfo = <<PlainInfo(1)>>
    /\ modlist = <<[name |-> ModLetters[1], active |-> TRUE, separator |-> FALSE]>>
    /\ helper = [reverse_order |-> FALSE, include_separators |-> FALSE]
    /\ mi = 0
    /\ yielded = <<>>

\* The Markdown list of mods without files is asked for, the host knowing
\* any url, nexus id and version of each.
InitMarkdown ==
    /\ InitWith({ {} })
    /\ NoDialog
    /\ tool \in {"markdown", "clip"}
    /\ pc = "display"
    /\ contents = TRUE
    /\ modinfo \in {f \in [1..Len(mods) -> UNION {ModInfo(k) : k \in 1..MaxMods}] :
                        \A k \in 1..Len(mods) : f[k] \in ModInfo(k)}
    /\ NoHelper

\* A ModListHelper is made for a host list and active_mod_names is called.
InitModList ==
    /\ InitWith({ {} })
    /\ mods = <<>>
    /\ NoDialog
    /\ modinfo = <<>>
    /\ tool = "folder"
    /\ pc = "active_mod_names"
    /\ contents = TRUE
    /\ modlist \in HostLists
    /\ helper \in [reverse_order : BOOLEAN, include_separators : BOOLEAN]
    /\ mi = 0
    /\ yielded = <<>>

\* collect_mod_file_paths is called on a list of mods.
InitResolve ==
    /\ InitWith(Trees)
    /\ NoDialog
    /\ PlainMods
    /\ tool = "folder"
    /\ pc = "collect"
    /\ contents \in BOOLEAN

\* Largest number of mods in the host's list when an export dialog is gone through.
MaxListed == 2
\* The settings of the three options that decide which mods are exported.
SequenceSettings ==
    {[DefaultSettings EXCEPT !["export-overwrite"] = BoolV(o),
                             !["export-separators"] = BoolV(s),
                             !["export-type"] = StrV(t)] :
        o \in BOOLEAN, s \in BOOLEAN, t \in ExportTypes}

\* An export command is invoked on any host list; the trees of the mods are
\* not looked at.
InitSequence ==
    /\ modlist \in {q \in HostLists : Len(q) <= MaxListed}
    /\ mods = [k \in 1..Cardinality({j \in 1..Len(modlist) : modlist[j].active}) |-> {}]
    /\ InitRun(FALSE)
    /\ modinfo = [k \in 1..Len(mods) |-> PlainInfo(k)]
    /\ helper = [reverse_order |-> FALSE, include_separators |-> FALSE]
    /\ mi = 0
    /\ yielded = <<>>
    /\ tool \in {"folder", "zip"}
    /\ pc = "display"
    /\ contents = TRUE
    /\ settings \in SequenceSettings
    /\ widgets = NoWidgets
    /\ call = NoCall
    /\ queries = <<>>
    /\ set_setting_calls = <<>>

\* export_mods_to_folder is about to be called with one str as file_filter.
InitFilterStr ==
    /\ InitArgs(ExportTrees, TRUE)
    /\ NoDialog
    /\ PlainMods
    /\ tool = "folder"
    /\ pc = "call"
    /\ contents = TRUE

\* ------------------------------------------------------------------ collect_mod_file_paths
include_mod_folder == ~contents

\* paths[relative] = absolute: a key already in the dict keeps its place.
dict_set(d, relative, absolute) ==
    IF \E k \in 1..Len(d) : d[k].relative = relative
    THEN [k \in 1..Len(d) |->
            IF d[k].relative = relative
            THEN [relative |-> relative, absolute |-> absolute] ELSE d[k]]
    ELSE Append(d, [relative |-> relative, absolute |-> absolute])

Keys(d) == {d[k].relative : k \in 1..Len(d)}

\* A variant of walker_put that keeps the entry of the first mod to produce a key.
walker_put_keep_first(d, k, e) ==
    LET relative == IF include_mod_folder THEN <<ModFolder(k)>> \o e.rel ELSE e.rel
    IN  IF relative \in Keys(d) THEN d ELSE dict_set(d, relative, ModRoot(k) \o e.rel)

\* A variant of walker_put that never puts the mod's folder name in the key.
walker_put_no_folder(d, k, e) == dict_set(d, e.rel, ModRoot(k) \o e.rel)

\* The walker's assignment for entry e of the mod at position k.
walker_put(d, k, e) ==
    dict_set(d,
             IF include_mod_folder THEN <<ModFolder(k)>> \o e.rel ELSE e.rel,
             ModRoot(k) \o e.rel)

\* One turn of the loop over the mods: the cancel check, then the walk of the
\* mod's tree starts.
collect_mod_file_paths ==
    /\ pc = "collect"
    /\ ci < Len(mods)
    /\ \E wasCanceled \in BOOLEAN :
         IF wasCanceled
         THEN /\ paths' = <<>>
              /\ pc' = "collected"
              /\ outcome' = "canceled"
              /\ UNCHANGED <<ci, walked>>
         ELSE /\ ci' = ci + 1
              /\ walked' = {}
              /\ pc' = IF mods[ci + 1] = {} THEN "collect" ELSE "walk"
              /\ UNCHANGED <<paths, outcome>>
    /\ UNCHANGED <<hostVars, argVars, loopVars, zipVars, mdVars, run, fs, fs0,
                   report, info, dialog>>

\* The tree walk calls the walker once per entry, a folder before its entries.
mod_tree_walker ==
    /\ pc = "walk"
    /\ \E e \in mods[ci] \ walked :
         /\ Len(e.rel) > 1 => \E f \in walked : f.rel = Parent(e.rel)
         /\ paths' = walker_put(paths, ci, e)
         /\ walked' = walked \cup {e}
         /\ pc' = IF walked' = mods[ci] THEN "collect" ELSE "walk"
    /\ UNCHANGED <<hostVars, argVars, loopVars, zipVars, mdVars, outcome, run, fs, fs0,
                   report, info, dialog, ci>>

\* The loop over the mods is over: the dict is returned.
collect_return ==
    /\ pc = "collect"
    /\ ci = Len(mods)
    /\ pc' = "collected"
    /\ UNCHANGED <<hostVars, argVars, collectVars, loopVars, zipVars, mdVars, outcome,
                   run, fs, fs0, report, info, dialog>>

\* ------------------------------------------------------------------ FolderExporter
\* The keys the mods' entries get in the dict.
KeysOf(ms, cont) ==
    {IF cont THEN e.rel ELSE <<ModFolder(k)>> \o e.rel :
        k \in 1..Len(ms), e \in UNION {ms[j] : j \in 1..Len(ms)}}

\* The file system with one more node at p, below folders.
with_node(f, p, node) ==
    LET g == mkdir_parents(f, Parent(p))
    IN  [q \in DOMAIN g \cup {p} |-> IF q = p THEN node ELSE g[q]]

\* The folders the user can pick in the dialog, with what they hold: the empty
\* folder, that folder holding an older file or a folder where an entry will
\* go, a folder of the mods themselves, and a folder on another volume.
TargetChoices(f, ms, cont) ==
    {[root |-> OutDir, fs |-> f]}
    \cup {[root |-> OutDir, fs |-> with_node(f, OutDir \o r, FileNode(OldData, OutDir \o r))] :
            r \in KeysOf(ms, cont)}
    \cup {[root |-> OutDir, fs |-> with_node(f, OutDir \o r, DirNode)] :
            r \in KeysOf(ms, cont)}
    \cup {[root |-> IF cont THEN ModRoot(1) ELSE ModsPath, fs |-> f]}
    \cup {[root |-> FarDir, fs |-> f]}

\* any(True for _ in self.active_mods())
any_active_mods == mods # <<>>

ResetRun ==
    /\ paths' = <<>>
    /\ ci' = 0
    /\ walked' = {}
    /\ i' = 0
    /\ skipped_files' = <<>>
    /\ overwritten_files' = <<>>
    /\ progress_value' = -1
    /\ written' = {}
    /\ wasCanceled_calls' = 0
    /\ outcomes' = <<>>

\* FolderExporter.display: the emptiness check, the dialog, and the call of
\* export_mods_to_folder with the options as the user left them.
FolderExporter_display ==
    /\ pc = "display"
    /\ tool = "folder"
    /\ IF ~any_active_mods
       THEN /\ info' = NoActiveMods
            /\ pc' = "done"
            /\ outcome' = "empty"
            /\ UNCHANGED <<argVars, fs, fs0, dialog>>
       ELSE /\ dialog' = TRUE
            /\ \/ /\ pc' = "done"                      \* no folder chosen
                  /\ outcome' = "rejected"
                  /\ UNCHANGED <<argVars, fs, fs0, info>>
               \/ /\ \E c \in BOOLEAN :
                       /\ contents' = c
                       /\ \E t \in TargetChoices(fs, mods, c) :
                            /\ target_path' = t.root
                            /\ fs' = t.fs
                            /\ fs0' = t.fs
                  /\ overwrite_existing' \in BOOLEAN
                  /\ hardlinks' \in BOOLEAN
                  /\ file_filter' \in FilterLists
                  /\ pc' = "collect"
                  /\ UNCHANGED <<info, outcome>>
    /\ UNCHANGED <<hostVars, collectVars, loopVars, zipVars, mdVars, run, report>>

\* A variant of no_paths that takes every dict for one with entries.
no_paths_never(d) == FALSE

\* if not paths: return
no_paths(d) == d = <<>>

\* export_mods_to_folder after the collection: nothing to do for an empty dict,
\* else the progress dialog and the two lists are set up.
export_mods_to_folder_start ==
    /\ pc = "collected"
    /\ tool = "folder"
    /\ IF no_paths(paths)
       THEN /\ pc' = "done"
            /\ outcome' = IF outcome = None THEN "nothing" ELSE outcome
       ELSE /\ pc' = "export"
            /\ UNCHANGED outcome
    /\ UNCHANGED <<hostVars, argVars, collectVars, loopVars, zipVars, mdVars, run, fs, fs0,
                   report, info, dialog>>

\* A variant of preserved that never keeps an existing target.
preserved_never(f, p, overwrite) == FALSE

\* if abs_target_path.exists(): if not overwrite_existing: skip
preserved(f, p, overwrite) == exists(f, p) /\ ~overwrite

\* The operations of the loop body that change the disk and can be refused
\* by the operating system (no permission, disk full, ...): the mkdir of the
\* parent, the mkdir of a folder entry, unlink, hardlink_to, and copy2 before
\* or after it has created the target.
IoFailures == {"mkdir_parent", "mkdir", "unlink", "link", "copy", "copy_torn"}
NoFailure == "no failure"

\* A variant of write_file that copies when the link cannot be made.
write_file_fallback(f, p, source, links, err) ==
    IF err \in {"copy", "copy_torn"} THEN [fs |-> f, failed |-> TRUE]
    ELSE IF links /\ Volume(p) = Volume(source) /\ err # "link"
         THEN [fs |-> hardlink_to(f, p, source), failed |-> FALSE]
    ELSE [fs |-> copy2(f, source, p), failed |-> FALSE]

\* if hardlinks: abs_target_path.hardlink_to(absolute)
\* else: shutil.copy2(absolute, abs_target_path)
\* A link to another volume is refused; nothing is tried in its place.
write_file(f, p, source, links, err) ==
    IF links
    THEN IF Volume(p) # Volume(source) \/ err = "link"
         THEN [fs |-> f, failed |-> TRUE]
         ELSE [fs |-> hardlink_to(f, p, source), failed |-> FALSE]
    ELSE IF err = "copy" THEN [fs |-> f, failed |-> TRUE]
    ELSE IF err = "copy_torn"
         THEN [fs |-> [q \in DOMAIN f \cup {p} |->
                          IF q = p THEN FileNode(<<>>, p) ELSE f[q]],
               failed |-> TRUE]
    ELSE [fs |-> copy2(f, source, p), failed |-> FALSE]

\* What the body of the loop does with one entry, on file system f, when the
\* operating system refuses operation err: [fs, skipped, overwritten, wrote,
\* failed, branch].  The branch is the way the body was left: "skipped"
\* (continue after skipped_files.append), "directory" (continue after mkdir),
\* "written" (the end of the body), "refused" (an exception because the
\* operating system refused err) or "raised" (an exception the entries and
\* the target themselves bring about).
export_entry(f, relative, absolute, target, filter, overwrite, links, err) ==
    LET abs_target_path == target \o relative
        step(g, sk, ow, wr, br) ==
            [fs |-> g, skipped |-> sk, overwritten |-> ow, wrote |-> wr,
             failed |-> br \in {"refused", "raised"}, branch |-> br]
    IN
    IF Filtered(relative, filter) THEN step(f, TRUE, FALSE, FALSE, "skipped")
    ELSE IF mkdir_fails(f, Parent(abs_target_path))
         THEN step(f, FALSE, FALSE, FALSE, "raised")
    ELSE IF err = "mkdir_parent" /\ ~exists(f, Parent(abs_target_path))
         THEN step(f, FALSE, FALSE, FALSE, "refused")
    ELSE
      LET f1 == mkdir_parents(f, Parent(abs_target_path)) IN
      IF is_dir(f1, absolute)
      THEN IF exists(f1, abs_target_path) /\ ~is_dir(f1, abs_target_path)
           THEN step(f1, FALSE, FALSE, FALSE, "raised")
           ELSE IF err = "mkdir" /\ ~exists(f1, abs_target_path)
           THEN step(f1, FALSE, FALSE, FALSE, "refused")
           ELSE step(mkdir_parents(f1, abs_target_path), FALSE, FALSE,
                     ~exists(f1, abs_target_path), "directory")
      ELSE IF preserved(f1, abs_target_path, overwrite)
           THEN step(f1, TRUE, FALSE, FALSE, "skipped")
      ELSE IF exists(f1, abs_target_path) /\ is_dir(f1, abs_target_path)
           THEN step(f1, FALSE, FALSE, FALSE, "raised")
      ELSE IF exists(f1, abs_target_path) /\ err = "unlink"
           THEN step(f1, FALSE, FALSE, FALSE, "refused")
      ELSE
        LET ow == exists(f1, abs_target_path)
            f2 == IF ow THEN unlink(f1, abs_target_path) ELSE f1
        IN  IF ~exists(f2, absolute) THEN step(f2, FALSE, ow, FALSE, "raised")
            ELSE LET w == write_file(f2, abs_target_path, absolute, links, err)
                 IN  step(w.fs, FALSE, ow, ~w.failed,
                          IF ~w.failed THEN "written"
                          ELSE IF err \in {"link", "copy", "copy_torn"} THEN "refused"
                          ELSE "raised")

\* for glob in file_filter: the elements of a list, the characters of a str
\* (each a glob of its own); nothing after "if not file_filter: file_filter = []".
globs(filter, is_str) ==
    IF ~is_str THEN filter
    ELSE IF filter = <<>> THEN <<>>
    ELSE [k \in 1..Len(filter[1]) |-> <<filter[1][k]>>]

\* A variant of skipped_append that records every entry as skipped.
skipped_append_every(skipped, r, absolute, abs_target_path) ==
    Append(skipped, <<absolute, abs_target_path>>)

\* skipped_files.append((absolute, abs_target_path)) on the two skipping branches
skipped_append(skipped, r, absolute, abs_target_path) ==
    IF r.skipped THEN Append(skipped, <<absolute, abs_target_path>>) ELSE skipped

\* One turn of the export loop: the cancel check, then the entry.
export_mods_to_folder ==
    /\ pc = "export"
    /\ i < Len(paths)
    /\ wasCanceled_calls' = wasCanceled_calls + 1
    /\ \E wasCanceled \in BOOLEAN :
         IF wasCanceled
         THEN /\ progress_value' = Len(paths)
              /\ pc' = "done"
              /\ outcome' = "canceled"
              /\ UNCHANGED <<i, skipped_files, overwritten_files, written, outcomes, fs>>
         ELSE LET relative == paths[i + 1].relative
                  absolute == paths[i + 1].absolute
                  abs_target_path == target_path \o relative
              IN  \E r \in {export_entry(fs, relative, absolute, target_path,
                                         globs(file_filter, file_filter_str),
                                         overwrite_existing, hardlinks, err) :
                                err \in IoFailures \cup {NoFailure}} :
                  /\ progress_value' = i
                  /\ fs' = r.fs
                  /\ skipped_files' =
                        skipped_append(skipped_files, r, absolute, abs_target_path)
                  /\ outcomes' = Append(outcomes, r.branch)
                  /\ overwritten_files' =
                        IF r.overwritten
                        THEN Append(overwritten_files, abs_target_path)
                        ELSE overwritten_files
                  /\ written' = IF r.wrote THEN written \cup {relative} ELSE written
                  /\ IF r.failed
                     THEN /\ pc' = "failed"
                          /\ outcome' = "failed"
                          /\ UNCHANGED i
                     ELSE /\ i' = i + 1
                          /\ UNCHANGED <<pc, outcome>>
    /\ UNCHANGED <<hostVars, argVars, collectVars, zipVars, mdVars, run, fs0,
                   report, info, dialog>>

\* The loop's else branch: every entry was gone through, the message is shown.
export_mods_to_folder_else ==
    /\ pc = "export"
    /\ i = Len(paths)
    /\ report' = [shown |-> TRUE, mods |-> Len(mods), exported |-> progress_value,
                  overwritten |-> Len(overwritten_files), skipped |-> Len(skipped_files)]
    /\ progress_value' = Len(paths)
    /\ pc' = "done"
    /\ outcome' = "completed"
    /\ UNCHANGED <<hostVars, argVars, collectVars, zipVars, mdVars, run, fs, fs0,
                   i, skipped_files, overwritten_files, written, outcomes, wasCanceled_calls,
                   info, dialog>>

\* The same mods are exported into the same folder once more.
export_again ==
    /\ pc = "done"
    /\ tool = "folder"
    /\ outcome = "completed"
    /\ run = 1
    /\ run' = 2
    /\ overwrite_existing' \in BOOLEAN
    /\ ResetRun
    /\ fs0' = fs
    /\ report' = NoReport
    /\ outcome' = None
    /\ pc' = "collect"
    /\ UNCHANGED <<hostVars, contents, hardlinks, file_filter, target_path, fs,
                   zipVars, mdVars, info, dialog>>

\* ------------------------------------------------------------------ ZipExporter
\* ZipExporter.display: the emptiness check, the dialog (its export type box
\* holds the "Exclude" field and saves it as the "filter" setting), the call.
ZipExporter_display ==
    /\ pc = "display"
    /\ tool = "zip"
    /\ IF ~any_active_mods
       THEN /\ info' = NoActiveMods
            /\ pc' = "done"
            /\ outcome' = "empty"
            /\ UNCHANGED <<contents, file_filter, dialog>>
       ELSE /\ dialog' = TRUE
            /\ \/ /\ pc' = "done"                      \* no file chosen
                  /\ outcome' = "rejected"
                  /\ UNCHANGED <<contents, file_filter, info>>
               \/ /\ contents' \in BOOLEAN
                  /\ file_filter' \in FilterLists
                  /\ pc' = "collect"
                  /\ UNCHANGED <<info, outcome>>
    /\ UNCHANGED <<hostVars, overwrite_existing, hardlinks, target_path, collectVars,
                   loopVars, zipVars, mdVars, run, report, fs, fs0>>

\* export_mod_files_as_zip after the collection; export_as_zip opens the archive.
export_mod_files_as_zip ==
    /\ pc = "collected"
    /\ tool = "zip"
    /\ IF no_paths(paths)
       THEN /\ pc' = "done"
            /\ outcome' = IF outcome = None THEN "nothing" ELSE outcome
            /\ UNCHANGED zipVars
       ELSE /\ completed' = TRUE
            /\ zip_state' = "open"
            /\ zip_file' = <<>>
            /\ pc' = "zip"
            /\ UNCHANGED <<outcome, qInfo_log, zip_exits>>
    /\ UNCHANGED <<hostVars, argVars, collectVars, loopVars, mdVars, run, fs, fs0,
                   report, info, dialog>>

\* zip_file.write(absolute, relative): a folder gets a record of its own.
zip_write(z, f, absolute, relative) ==
    Append(z, [arcname |-> relative, dir |-> is_dir(f, absolute),
               data |-> IF is_dir(f, absolute) THEN <<>> ELSE f[absolute].data])

\* A variant of ZipFile_exit that leaves the archive open when a write raised
\* (close() called after the loop, no with block).
ZipFile_exit_unless_raised(state, how) == IF how = "raise" THEN state ELSE "closed"

\* ZipFile.__exit__: the with block closes the archive however it is left
\* ("break", "else" or "raise").
ZipFile_exit(state, how) == "closed"

\* A variant of export_as_zip that writes the entry before it looks at the
\* cancel flag.
export_as_zip_write_then_check ==
    /\ pc = "zip"
    /\ i < Len(paths)
    /\ wasCanceled_calls' = wasCanceled_calls + 1
    /\ progress_value' = i
    /\ zip_file' = zip_write(zip_file, fs, paths[i + 1].absolute, paths[i + 1].relative)
    /\ \E wasCanceled \in BOOLEAN :
         IF wasCanceled
         THEN /\ zip_state' = "closed"
              /\ zip_exits' = zip_exits + 1
              /\ qInfo_log' = completed
              /\ pc' = "done"
              /\ outcome' = "canceled"
              /\ UNCHANGED i
         ELSE /\ i' = i + 1
              /\ UNCHANGED <<zip_state, zip_exits, qInfo_log, pc, outcome>>
    /\ UNCHANGED <<hostVars, argVars, collectVars, mdVars, run, fs, fs0, report, info,
                   dialog, skipped_files, overwritten_files, written, outcomes, completed>>

\* One turn of the archive loop.  On cancel the loop is left, the archive is
\* closed, and the value returned decides whether the caller logs.  A member
\* that cannot be written raises out of the with block and of the command.
export_as_zip ==
    /\ pc = "zip"
    /\ i < Len(paths)
    /\ wasCanceled_calls' = wasCanceled_calls + 1
    /\ \E wasCanceled \in BOOLEAN :
         IF wasCanceled
         THEN /\ zip_state' = ZipFile_exit(zip_state, "break")
              /\ zip_exits' = zip_exits + 1
              /\ progress_value' = Len(paths)
              /\ qInfo_log' = completed
              /\ pc' = "done"
              /\ outcome' = "canceled"
              /\ UNCHANGED <<i, zip_file, completed>>
         ELSE /\ progress_value' = i
              /\ \E write_fails \in BOOLEAN :
                   IF write_fails
                   THEN /\ zip_state' = ZipFile_exit(zip_state, "raise")
                        /\ zip_exits' = zip_exits + 1
                        /\ pc' = "failed"
                        /\ outcome' = "failed"
                        /\ UNCHANGED <<i, zip_file>>
                   ELSE /\ zip_file' = zip_write(zip_file, fs, paths[i + 1].absolute,
                                                 paths[i + 1].relative)
                        /\ i' = i + 1
                        /\ UNCHANGED <<zip_state, zip_exits, pc, outcome>>
              /\ UNCHANGED <<completed, qInfo_log>>
    /\ UNCHANGED <<hostVars, argVars, collectVars, mdVars, run, fs, fs0, report, info,
                   dialog, skipped_files, overwritten_files, written, outcomes>>

\* The loop's else branch, the end of the with block and the return.
export_as_zip_else ==
    /\ pc = "zip"
    /\ i = Len(paths)
    /\ completed' = FALSE
    /\ zip_state' = ZipFile_exit(zip_state, "else")
    /\ zip_exits' = zip_exits + 1
    /\ progress_value' = Len(paths)
    /\ qInfo_log' = completed'
    /\ pc' = "done"
    /\ outcome' = "completed"
    /\ UNCHANGED <<hostVars, argVars, collectVars, mdVars, run, fs, fs0, report, info,
                   dialog, i, skipped_files, overwritten_files, written, outcomes, zip_file,
                   wasCanceled_calls>>

\* ------------------------------------------------------------------ Markdown
\* bool() of the generator object active_mods() returns: always true.
bool_generator(ms) == TRUE

\* MarkdownExporter._nexus_mod_url
nexus_mod_url(nexus_name, mod_id) ==
    "https://nexusmods.com/" \o nexus_name \o "/mods/" \o IntStr(mod_id)

\* The body of the loop of markdown_modlist: the line yielded for one mod.
\* "not url" and the walrus test of nexus_id are truth tests: "" and 0 fail.
markdown_line(mod) ==
    LET url == IF mod.url = "" /\ mod.nexusId # 0
               THEN nexus_mod_url(gameNexusName, mod.nexusId) ELSE mod.url
        name_str == IF url # "" THEN "[" \o mod.name \o "](" \o url \o ")" ELSE mod.name
        version_str == IF mod.version # "" THEN " v" \o mod.version ELSE ""
    IN  "- " \o name_str \o version_str \o "\n"

\* One line per mod, in input order.
markdown_modlist(ms) == [k \in 1..Len(ms) |-> markdown_line(ms[k])]

MarkdownExporter_display ==
    /\ pc = "display"
    /\ tool = "markdown"
    /\ IF ~bool_generator(mods)
       THEN /\ info' = NoActiveMods
            /\ outcome' = "empty"
            /\ UNCHANGED <<dialog, md_file>>
       ELSE /\ dialog' = TRUE
            /\ \/ /\ outcome' = "rejected"             \* no file chosen
                  /\ UNCHANGED md_file
               \/ /\ md_file' = [written |-> TRUE, lines |-> markdown_modlist(modinfo)]
                  /\ outcome' = "completed"
            /\ UNCHANGED info
    /\ pc' = "done"
    /\ UNCHANGED <<hostVars, argVars, collectVars, loopVars, zipVars, clipboard, run,
                   fs, fs0, report>>

MarkdownToClip_display ==
    /\ pc = "display"
    /\ tool = "clip"
    /\ IF ~bool_generator(mods)
       THEN /\ info' = NoActiveMods
            /\ outcome' = "empty"
            /\ UNCHANGED clipboard
       ELSE /\ clipboard' = [written |-> TRUE, lines |-> markdown_modlist(modinfo)]
            /\ info' = "mod infos copied to clipboard"
            /\ outcome' = "completed"
    /\ pc' = "done"
    /\ UNCHANGED <<hostVars, argVars, collectVars, loopVars, zipVars, md_file, run,
                   fs, fs0, report, dialog>>

\* ------------------------------------------------------------------ ModListHelper
\* A variant of yields that takes a separator whatever the helper says.
yields_separators_always(mod, include_separators) == mod.separator \/ mod.active

\* if self.include_separators and getMod(mod).isSeparator(): yield mod
\* elif modlist.state(mod) & mobase.ModState.ACTIVE: yield mod
yields(mod, include_separators) ==
    IF include_separators /\ mod.separator THEN TRUE ELSE mod.active

\* The order the loop goes through the host's list.
mods_load_order == IF helper.reverse_order THEN reversed(modlist) ELSE modlist

\* One turn of the loop of active_mod_names.
active_mod_names ==
    /\ pc = "active_mod_names"
    /\ mi < Len(modlist)
    /\ mi' = mi + 1
    /\ yielded' =
          IF yields(mods_load_order[mi + 1], helper.include_separators)
          THEN Append(yielded, mods_load_order[mi + 1].name)
          ELSE yielded
    /\ UNCHANGED <<tool, mods, dialogVars, modinfo, modlist, helper, pc, outcome,
                   file_filter_str, argVars, collectVars, loopVars, zipVars, mdVars, run, fs, fs0,
                   report, info, dialog>>

\* ------------------------------------------------------------------ the export dialogs
\* display() of the two export tools, with the dialog in detail: the option
\* widgets are built from the settings, the user changes some, and on accept
\* the callbacks store the widgets' values before the export is called.
dialogRest == <<tool, mods, modinfo, helperVars, outcome, argVars, collectVars, loopVars,
                zipVars, mdVars, run, fs, fs0, report, dialog, file_filter_str>>

\* list(self.active_mods(include_separators=...)): the names active_mod_names
\* yields for the host's list, in the host's order.
active_mods(include_separators) ==
    LET taken == SelectSeq(modlist, LAMBDA mod : yields(mod, include_separators))
    IN  [k \in 1..Len(taken) |-> taken[k].name]

\* if not any(True for _ in self.active_mods()): the message, and return
no_active_mods ==
    /\ info' = NoActiveMods
    /\ pc' = "done"
    /\ outcome' = "nothing"
    /\ UNCHANGED widgets

FolderExporter_dialog ==
    /\ pc = "display"
    /\ tool = "folder"
    /\ queries' = Append(queries, active_mods(FALSE))
    /\ IF active_mods(FALSE) = <<>>
       THEN no_active_mods
       ELSE /\ widgets' =
                  [NoWidgets EXCEPT
                      !.built = TRUE,
                      !.overwrite = Option_checked(settings["export-overwrite"]),
                      !.separators = Option_checked(settings["export-separators"]),
                      !.hardlinks = Option_checked(settings["hardlinks"]),
                      !.overwrite_existing = Option_checked(settings["overwrite-exiting"]),
                      !.export_type = export_type_checked(settings["export-type"]),
                      !.filter = str(settings["filter"])]
            /\ pc' = "dialog"
            /\ UNCHANGED <<info, outcome>>
    /\ UNCHANGED <<tool, mods, modinfo, helperVars, argVars, collectVars, loopVars,
                   zipVars, mdVars, run, fs, fs0, report, dialog, file_filter_str,
                   settings, call, set_setting_calls>>

ZipExporter_dialog ==
    /\ pc = "display"
    /\ tool = "zip"
    /\ queries' = Append(queries, active_mods(FALSE))
    /\ IF active_mods(FALSE) = <<>>
       THEN no_active_mods
       ELSE /\ widgets' =
                  [NoWidgets EXCEPT
                      !.built = TRUE,
                      !.overwrite = Option_checked(settings["export-overwrite"]),
                      !.separators = Option_checked(settings["export-separators"]),
                      !.export_type = export_type_checked(settings["export-type"]),
                      !.filter = str(settings["filter"]),
                      !.compression = compression(settings["compression"]),
                      !.level = spin_box_value(settings["compression-level"])]
            /\ pc' = "dialog"
            /\ UNCHANGED <<info, outcome>>
    /\ UNCHANGED <<tool, mods, modinfo, helperVars, argVars, collectVars, loopVars,
                   zipVars, mdVars, run, fs, fs0, report, dialog, file_filter_str,
                   settings, call, set_setting_calls>>

\* The user changes one widget.  "Include Separators" is disabled unless
\* "Export separate mod folders" is checked.
user_edits ==
    /\ pc = "dialog"
    /\ widgets.edits < MaxEdits
    /\ \E w \in
         {[widgets EXCEPT !.edits = @ + 1, !.overwrite = ~@]}
         \cup (IF widgets.export_type = "mod-folder"
               THEN {[widgets EXCEPT !.edits = @ + 1, !.separators = ~@]} ELSE {})
         \cup (IF tool = "folder" /\ widgets.hardlinks_enabled
               THEN {[widgets EXCEPT !.edits = @ + 1, !.hardlinks = ~@]} ELSE {})
         \cup (IF tool = "folder"
               THEN {[widgets EXCEPT !.edits = @ + 1, !.overwrite_existing = ~@]} ELSE {})
         \cup {[widgets EXCEPT !.edits = @ + 1, !.export_type = t] : t \in ExportTypes}
         \cup {[widgets EXCEPT !.edits = @ + 1, !.filter = x] : x \in FilterTexts}
         \cup (IF tool = "zip"
               THEN {[widgets EXCEPT !.edits = @ + 1, !.compression = c] :
                        c \in ZipCompressionMethod}
                    \cup {[widgets EXCEPT !.edits = @ + 1, !.level = n] :
                             n \in MinLevel..MaxLevel}
               ELSE {}) :
         widgets' = w
    /\ UNCHANGED <<dialogRest, pc, info, settings, call, queries, set_setting_calls>>

\* path_change_callback(path): setEnabled(False) when the drive of the path is
\* not the drive of the mods folder, setEnabled(True) when it is.
path_changed(w, drive) ==
    [w EXCEPT !.path_drive = drive, !.hardlinks_enabled = (drive = modsPath_drive)]

\* The user goes to another folder of the folder dialog: directoryEntered.
path_change_callback ==
    /\ pc = "dialog"
    /\ tool = "folder"
    /\ \E drive \in Drives : widgets' = path_changed(widgets, drive)
    /\ UNCHANGED <<dialogRest, pc, info, settings, call, queries, set_setting_calls>>

\* The accept callbacks of the widgets: Option.accept_callback,
\* ExportTypeBox.accept_callback, compression_setting_callback.
accept_callbacks(st, t, w) ==
    [key \in SettingKeys |->
        CASE key = "export-overwrite" -> BoolV(w.overwrite)
          [] key = "export-separators" -> BoolV(w.separators)
          [] key = "export-type" -> StrV(w.export_type)
          [] key = "filter" -> StrV(w.filter)
          [] key = "hardlinks" -> IF t = "folder" THEN BoolV(w.hardlinks) ELSE st[key]
          [] key = "overwrite-exiting" ->
                IF t = "folder" THEN BoolV(w.overwrite_existing) ELSE st[key]
          [] key = "compression" -> IF t = "zip" THEN StrV(w.compression) ELSE st[key]
          [] key = "compression-level" -> IF t = "zip" THEN IntV(w.level) ELSE st[key]]

\* The keys in the order the callbacks connected to accepted call set_setting:
\* the options of the OptionBox, the ExportTypeBox, the compression callback.
accept_callback_keys(t) ==
    IF t = "folder"
    THEN <<"export-overwrite", "export-separators", "hardlinks", "overwrite-exiting",
           "export-type", "filter">>
    ELSE <<"export-overwrite", "export-separators", "export-type", "filter",
           "compression", "compression-level">>

\* A variant of with_overwrite that puts the overwrite mod first.
with_overwrite_first(active, checked) ==
    IF checked THEN <<"overwrite">> \o active ELSE active

\* if overwrite_option.isChecked(): active_mods.append(modList().getMod("overwrite"))
with_overwrite(active, checked) ==
    IF checked THEN Append(active, "overwrite") ELSE active

\* A variant of hardlinks_requested that asks the check box only.
hardlinks_checked(w) == w.hardlinks

\* hardlinks=hardlink_option.isEnabled() and hardlink_option.isChecked()
hardlinks_requested(w) == w.hardlinks_enabled /\ w.hardlinks

\* The dialog is accepted with a target: the dialog signals the selected path
\* (fileSelected), the callbacks connected to accepted run, then display()
\* reads the host's list again and calls the export with what the widgets
\* and the settings hold; export_as_zip reads _compression and
\* _compression_level when it opens the archive.
dialog_accepted ==
    /\ pc = "dialog"
    /\ \E drive \in Drives :
         /\ widgets' = IF tool = "folder" THEN path_changed(widgets, drive) ELSE widgets
         /\ settings' = accept_callbacks(settings, tool, widgets')
         /\ set_setting_calls' = set_setting_calls \o accept_callback_keys(tool)
         /\ queries' = Append(queries, active_mods(widgets'.separators))
         /\ call' =
              IF tool = "folder"
              THEN [NoCall EXCEPT
                       !.made = TRUE,
                       !.target_drive = drive,
                       !.include_separators = widgets'.separators,
                       !.active_mods = with_overwrite(active_mods(widgets'.separators),
                                                      widgets'.overwrite),
                       !.contents = (settings'["export-type"] = StrV("mod-content")),
                       !.overwrite_existing = widgets'.overwrite_existing,
                       !.hardlinks = hardlinks_requested(widgets'),
                       !.filter = str(settings'["filter"])]
              ELSE [NoCall EXCEPT
                       !.made = TRUE,
                       !.target_drive = drive,
                       !.include_separators = widgets'.separators,
                       !.active_mods = with_overwrite(active_mods(widgets'.separators),
                                                      widgets'.overwrite),
                       !.contents = ~(settings'["export-type"] = StrV("mod-folder")),
                       !.compression = compression(settings'["compression"]),
                       !.compresslevel = compression_level(settings'["compression-level"])]
    /\ pc' = "called"
    /\ UNCHANGED <<dialogRest, info>>

\* A variant of dialog_rejected in which the callbacks run all the same.
dialog_rejected_stores ==
    /\ pc = "dialog"
    /\ pc' = "done"
    /\ outcome' = "rejected"
    /\ settings' = accept_callbacks(settings, tool, widgets)
    /\ set_setting_calls' = set_setting_calls \o accept_callback_keys(tool)
    /\ UNCHANGED <<tool, mods, modinfo, helperVars, argVars, collectVars, loopVars,
                   zipVars, mdVars, run, fs, fs0, report, dialog, file_filter_str,
                   info, widgets, call, queries>>

\* The dialog is closed without a target (exec() returns 0, getDirectory and
\* getFile return ""): display returns, nothing is stored.
dialog_rejected ==
    /\ pc = "dialog"
    /\ pc' = "done"
    /\ outcome' = "rejected"
    /\ UNCHANGED <<tool, mods, modinfo, helperVars, argVars, collectVars, loopVars,
                   zipVars, mdVars, run, fs, fs0, report, dialog, file_filter_str,
                   info, dialogVars>>

\* ------------------------------------------------------------------ specifications
\* The strings export_mods_to_folder is called with as file_filter.
GlobStrings == {<<>>, <<"a">>, <<"d">>, <<"*", "a">>, <<"*", "d">>, <<"d", "*">>}

\* def export_mods_to_folder(self, mods, target_path, contents, ..., file_filter: str)
export_mods_to_folder_call ==
    /\ pc = "call"
    /\ tool = "folder"
    /\ contents' \in BOOLEAN
    /\ \E glob \in GlobStrings :
          file_filter' = IF glob = <<>> THEN <<>> ELSE <<glob>>
    /\ pc' = "collect"
    /\ UNCHANGED <<hostVars, overwrite_existing, hardlinks, target_path, collectVars,
                   loopVars, zipVars, mdVars, outcome, run, fs, fs0, report, info, dialog>>

Next ==
    \/ FolderExporter_display
    \/ ZipExporter_display
    \/ MarkdownExporter_display
    \/ MarkdownToClip_display
    \/ collect_mod_file_paths
    \/ mod_tree_walker
    \/ collect_return
    \/ export_mods_to_folder_start
    \/ export_mods_to_folder
    \/ export_mods_to_folder_else
    \/ export_again
    \/ export_mod_files_as_zip
    \/ export_as_zip
    \/ export_as_zip_else

Spec == Init /\ [][Next]_vars

NextResolve ==
    \/ collect_mod_file_paths
    \/ mod_tree_walker
    \/ collect_return

SpecResolve == InitResolve /\ [][NextResolve]_vars

SpecSparse == InitSparse /\ [][Next]_vars

NextFilterStr ==
    \/ export_mods_to_folder_call
    \/ collect_mod_file_paths
    \/ mod_tree_walker
    \/ collect_return
    \/ export_mods_to_folder_start
    \/ export_mods_to_folder
    \/ export_mods_to_folder_else

SpecFilterStr == InitFilterStr /\ [][NextFilterStr]_vars

NextSettings ==
    \/ FolderExporter_dialog
    \/ ZipExporter_dialog
    \/ user_edits
    \/ path_change_callback
    \/ dialog_accepted
    \/ dialog_rejected

SpecSettings == InitSettings /\ [][NextSettings]_vars

SpecSequence == InitSequence /\ [][NextSettings]_vars

NextMarkdown ==
    \/ MarkdownExporter_display
    \/ MarkdownToClip_display

SpecMarkdown == InitMarkdown /\ [][NextMarkdown]_vars

NextModList == active_mod_names

SpecModList == InitModList /\ [][NextModList]_vars

\* ------------------------------------------------------------------ claims
Range(q) == {q[k] : k \in 1..Len(q)}
Count(q, x) == Cardinality({k \in 1..Len(q) : q[k] = x})

\* The mods of the sequence whose tree holds an entry at relative path p.
Producers(p) == {k \in 1..Len(mods) : \E e \in mods[k] : e.rel = p}
Max(S) == CHOOSE x \in S : \A y \in S : y <= x
EntriesFor(d, p) == {k \in 1..Len(d) : d[k].relative = p}

CollisionLaw ==
    \A p \in RelPaths :
        Cardinality(Producers(p)) >= 2 =>
            /\ Cardinality(EntriesFor(paths, p)) = 1
            /\ \A k \in EntriesFor(paths, p) :
                  paths[k].absolute = ModRoot(Max(Producers(p))) \o p

\* C1 as stated: in merged mode, whatever collect_mod_file_paths returns has
\* exactly one entry for every relative path two or more mods produce, and the
\* entry's source lies under the root of the last of these mods.
C1_CollisionLawOfEveryReturn ==
    (pc = "collected" /\ ~include_mod_folder) => CollisionLaw

\* C1 amended: the collision law holds of the dict returned by a collection
\* that was not cancelled (a cancelled collection returns the empty dict),
\* whatever the order in which each mod's tree was walked.
C1_CollisionLaw ==
    (pc = "collected" /\ ~include_mod_folder /\ outcome # "canceled") => CollisionLaw

C1_Witness ==
    /\ pc = "collected"
    /\ ~include_mod_folder
    /\ outcome # "canceled"
    /\ \E p \in RelPaths : Cardinality(Producers(p)) >= 2
    /\ Len(paths) >= 2

\* The target of the dict entry at position k.
TargetOf(k) == target_path \o paths[k].relative
Running == pc \in {"export", "done", "failed"} /\ paths # <<>>
InFolderRun == tool = "folder" /\ Running
\* The export loop has gone through entry k, or has failed on it.
Attempted(k) == k <= i \/ (pc = "failed" /\ k = i + 1)
\* Paths below the target folder that this run created, removed or changed.
TouchedBelowTarget ==
    {q \in (DOMAIN fs \cup DOMAIN fs0) :
        /\ IsPrefix(target_path, q) /\ q # target_path
        /\ (q \notin DOMAIN fs \/ q \notin DOMAIN fs0 \/ fs[q] # fs0[q])}

\* C2 as stated: a folder export never creates or writes a target file or
\* folder whose relative path matches an exclusion glob, and every entry of
\* the dict that matches is recorded as skipped once the loop has reached it.
C2_FilterLawFolder ==
    InFolderRun =>
        /\ \A q \in TouchedBelowTarget :
              q \in DOMAIN fs => ~Filtered(RelativeTo(q, target_path), file_filter)
        /\ \A k \in 1..i :
              Filtered(paths[k].relative, file_filter) =>
                  <<paths[k].absolute, TargetOf(k)>> \in Range(skipped_files)

\* C3 as stated: the archive holds no member whose relative path matches a
\* glob of the "filter" setting saved by the zip dialog.
C3_FilterLawZip ==
    tool = "zip" =>
        \A k \in 1..Len(zip_file) : ~Filtered(zip_file[k].arcname, file_filter)

\* C4 as stated: export_as_zip returns True exactly when the loop went through
\* every entry, so "mods exported" is logged only for a fully written archive.
C4_ZipCompletionStatus ==
    (tool = "zip" /\ pc = "done" /\ zip_state = "closed") =>
        /\ completed = (Len(zip_file) = Len(paths))
        /\ qInfo_log => outcome = "completed"

\* C5 as stated: with no active mods every command shows "No active mods!"
\* and returns: no file dialog, no file, archive or clipboard write.
C5_EmptySelection ==
    (mods = <<>> /\ pc # "display") =>
        /\ info = NoActiveMods
        /\ ~dialog
        /\ ~md_file.written
        /\ ~clipboard.written
        /\ zip_state = "none"
        /\ fs = fs0

\* C6: with overwrite_existing off, every file present below the target when
\* the run started is still there, unchanged, at every point of the run; an
\* entry for a file whose target was there is recorded as skipped, and the run
\* does not fail on it.
C6_OverwriteOffPreserves ==
    (InFolderRun /\ ~overwrite_existing) =>
        /\ \A q \in DOMAIN fs0 :
              (IsPrefix(target_path, q) /\ fs0[q].kind = "file") =>
                  (q \in DOMAIN fs /\ fs[q] = fs0[q])
        /\ \A k \in 1..Len(paths) :
              (/\ Attempted(k)
               /\ ~is_dir(fs0, paths[k].absolute)
               /\ exists(fs0, TargetOf(k))) =>
                  /\ k <= i
                  /\ <<paths[k].absolute, TargetOf(k)>> \in Range(skipped_files)
                  /\ paths[k].relative \notin written

C6_Witness ==
    /\ InFolderRun
    /\ ~overwrite_existing
    /\ outcome = "completed"
    /\ file_filter = <<>>
    /\ \E k \in 1..Len(paths) :
          /\ exists(fs0, TargetOf(k)) /\ fs0[TargetOf(k)].data = OldData
          /\ ~is_dir(fs0, paths[k].absolute)
    /\ written # {}

\* C7 as stated: with overwrite_existing on, a file entry whose target is
\* there already (as a file) ends with the target recorded once as overwritten
\* and holding the source's content, as a link to the source when hardlinks
\* is on.
C7_OverwriteOnReplaces ==
    (InFolderRun /\ overwrite_existing) =>
        \A k \in 1..Len(paths) :
            (/\ Attempted(k)
             /\ ~Filtered(paths[k].relative, file_filter)
             /\ exists(fs0, paths[k].absolute) /\ ~is_dir(fs0, paths[k].absolute)
             /\ exists(fs0, TargetOf(k)) /\ ~is_dir(fs0, TargetOf(k))) =>
                /\ Count(overwritten_files, TargetOf(k)) = 1
                /\ exists(fs, TargetOf(k))
                /\ fs[TargetOf(k)].kind = "file"
                /\ fs[TargetOf(k)].data = fs0[paths[k].absolute].data
                /\ hardlinks => fs[TargetOf(k)].ino = fs0[paths[k].absolute].ino

\* The entries of the dict a repeated run with overwrite_existing off records
\* as skipped: the filtered ones and the ones that are not folders.
SkippedOnRepeat ==
    {k \in 1..Len(paths) :
        Filtered(paths[k].relative, file_filter) \/ ~is_dir(fs, paths[k].absolute)}

\* C8 as stated: a second export of the same mods into the same folder with
\* overwrite_existing off reports every item of the dict as skipped and
\* changes nothing on the target.
C8_RepeatSkipsEveryItem ==
    (tool = "folder" /\ run = 2 /\ ~overwrite_existing) =>
        /\ fs = fs0
        /\ outcome = "completed" => report.skipped = Len(paths)

\* C8 amended: the second run changes nothing at any point and does not fail;
\* it records as skipped every filtered entry and every entry that is not a
\* folder, and no other: a folder entry that passes the filter is found in
\* place and is not reported.
C8_RepeatSkipsFiles ==
    (tool = "folder" /\ run = 2 /\ ~overwrite_existing) =>
        /\ fs = fs0
        /\ pc # "failed"
        /\ written = {}
        /\ overwritten_files = <<>>
        /\ outcome = "completed" =>
              /\ report.skipped = Cardinality(SkippedOnRepeat)
              /\ \A k \in SkippedOnRepeat :
                    Count(skipped_files, <<paths[k].absolute, TargetOf(k)>>) = 1

C8_Witness ==
    /\ tool = "folder" /\ run = 2 /\ ~overwrite_existing
    /\ outcome = "completed"
    /\ report.skipped >= 1
    /\ report.skipped < Len(paths)

\* C9 as stated: the number of files/folders the completion message reports
\* as exported is the number of entries this run created or wrote.
C9_ReportedCount ==
    (tool = "folder" /\ report.shown) => report.exported = Cardinality(written)

\* C10 as stated: no folder of the dict gets a record of its own in the archive.
C10_ArchiveHoldsOnlyFiles ==
    tool = "zip" => \A k \in 1..Len(zip_file) : ~zip_file[k].dir

\* The export loop of the folder or the archive engine was entered.
InExportLoop == tool \in {"folder", "zip"} /\ pc \in {"export", "zip", "done", "failed"}
                    /\ paths # <<>>

\* C11: in both export loops the cancel flag is read once per entry, before
\* the entry is processed (so the reads number the entries gone through, plus
\* the read that ended the loop or the entry that failed); the step that reads
\* it as set, and every step after it, creates, copies, links and writes
\* nothing and leaves what was written before as it is.
C11_CancelOncePerEntry ==
    /\ [](InExportLoop =>
            wasCanceled_calls = i + (IF outcome \in {"canceled", "failed"} THEN 1 ELSE 0))
    /\ [][outcome' = "canceled" =>
            /\ fs' = fs
            /\ zip_file' = zip_file
            /\ written' = written
            /\ i' = i]_vars

C11_Witness ==
    /\ InExportLoop
    /\ tool = "folder"
    /\ outcome = "canceled"
    /\ written # {}
    /\ i < Len(paths)
    /\ wasCanceled_calls = i + 1
    /\ \E q \in DOMAIN fs : q \notin DOMAIN fs0

\* C12 as stated: an export the user cancelled in the progress dialog ends
\* with a message to the user that carries the numbers of entries written,
\* overwritten and skipped so far, and without the log line of a completed
\* export.
C12_CancelReported ==
    (InExportLoop /\ pc = "done" /\ outcome = "canceled") =>
        /\ report.shown
        /\ report.exported = Cardinality(written)
        /\ report.overwritten = Len(overwritten_files)
        /\ report.skipped = Len(skipped_files)
        /\ ~qInfo_log

\* C13: the archive is open only while the loop of export_as_zip runs; when
\* the command has left the loop (every entry written, cancelled, or a member
\* that could not be written) the archive is closed, and it was closed once.
C13_ArchiveClosedOnce ==
    tool = "zip" =>
        /\ zip_exits <= 1
        /\ zip_state = "none" => (zip_exits = 0 /\ pc \notin {"zip", "failed"})
        /\ zip_state = "open" => (pc = "zip" /\ zip_exits = 0)
        /\ zip_state = "closed" => zip_exits = 1
        /\ (pc \in {"done", "failed"} /\ paths # <<>>) => zip_state = "closed"

C13_Witness ==
    /\ tool = "zip"
    /\ pc = "failed"
    /\ zip_state = "closed"
    /\ zip_exits = 1
    /\ Len(zip_file) >= 1
    /\ Len(zip_file) < Len(paths)

\* C14: a folder export in which a mkdir, an unlink, a hardlink or a copy is
\* refused (a hardlink to another volume included) ends as failed with no
\* completion message; with hardlinks on, every file the run wrote is a link
\* to its source, never a copy made in its place; the failing step leaves what
\* earlier turns wrote as it is, and no step follows it.
C14_FailurePropagates ==
    /\ []((tool = "folder" /\ pc = "failed") =>
            /\ outcome = "failed"
            /\ ~report.shown
            /\ info = None)
    /\ []((InFolderRun /\ hardlinks) =>
            \A k \in 1..Len(paths) :
                (/\ paths[k].relative \in written
                 /\ exists(fs, TargetOf(k)) /\ ~is_dir(fs, TargetOf(k))) =>
                    /\ Volume(TargetOf(k)) = Volume(paths[k].absolute)
                    /\ fs[TargetOf(k)].ino = paths[k].absolute)
    /\ [][(tool = "folder" /\ pc' = "failed") =>
            /\ pc = "export"
            /\ written' = written
            /\ i' = i
            /\ \A k \in 1..i :
                  exists(fs, TargetOf(k)) =>
                      (exists(fs', TargetOf(k)) /\ fs'[TargetOf(k)] = fs[TargetOf(k)])]_vars

C14_Witness ==
    /\ tool = "folder"
    /\ pc = "failed"
    /\ hardlinks
    /\ Volume(target_path) # Volume(ModsPath)
    /\ i >= 1
    /\ written # {}
    /\ ~is_dir(fs, paths[i + 1].absolute)
    /\ ~exists(fs, TargetOf(i + 1))

\* C15: when collect_mod_file_paths has returned the empty dict (no mods,
\* mods without entries, or a cancelled collection), the folder and the zip
\* command end with the disk as it was: no archive opened, no completion
\* message, no log line.
C15_EmptyMapNoOp ==
    (tool \in {"folder", "zip"} /\ pc \in {"collected", "done"} /\ paths = <<>>) =>
        /\ fs = fs0
        /\ zip_state = "none"
        /\ zip_file = <<>>
        /\ ~report.shown
        /\ ~qInfo_log
        /\ mods # <<>> => info = None
        /\ written = {}

C15_Witness ==
    /\ tool \in {"folder", "zip"}
    /\ pc = "done"
    /\ dialog
    /\ Len(mods) = MaxMods
    /\ \A k \in 1..Len(mods) : mods[k] = {}
    /\ paths = <<>>
    /\ outcome = "nothing"

\* C16 as stated: when a dialog is built, every setting it reads that holds
\* a value of the wrong type or a name the plugin does not know shows in its
\* widget as the setting's default.
C16_InvalidSettingDefaults ==
    (pc = "dialog" /\ widgets.edits = 0) =>
        LET shown ==
              [key \in SettingKeys |->
                 CASE key = "export-overwrite" -> BoolV(widgets.overwrite)
                   [] key = "export-separators" -> BoolV(widgets.separators)
                   [] key = "hardlinks" -> BoolV(widgets.hardlinks)
                   [] key = "overwrite-exiting" -> BoolV(widgets.overwrite_existing)
                   [] key = "export-type" -> StrV(widgets.export_type)
                   [] key = "filter" -> StrV(widgets.filter)
                   [] key = "compression" -> StrV(widgets.compression)
                   [] key = "compression-level" -> IntV(widgets.level)]
        IN  \A key \in KeysRead(tool) :
                ~ValidSetting(key, settings[key]) => shown[key] = DefaultSettings[key]

\* C17 as stated: the spin box shows a stored level of -1 to 9 as it is, and
\* the archive is opened with the level the spin box held when the dialog was
\* accepted: compresslevel omitted for -1, the level itself for 0 to 9.
C17_CompressionLevel ==
    tool = "zip" =>
        /\ (/\ pc = "dialog" /\ widgets.edits = 0
            /\ ValidSetting("compression-level", settings["compression-level"])) =>
               widgets.level = settings["compression-level"].n
        /\ (pc = "called" /\ call.made) =>
               call.compresslevel =
                   IF widgets.level = MinLevel THEN NoLevel ELSE Level(widgets.level)

\* Every entry of every mod has one entry of the dict, keyed by the mod's
\* folder name followed by the entry's path, its source below that mod's root;
\* the dict holds nothing else.
SeparateFoldersLaw ==
    /\ Keys(paths) =
          UNION {{<<ModFolder(k)>> \o e.rel : e \in mods[k]} : k \in 1..Len(mods)}
    /\ \A k \in 1..Len(mods) : \A e \in mods[k] :
          /\ Cardinality(EntriesFor(paths, <<ModFolder(k)>> \o e.rel)) = 1
          /\ \A j \in EntriesFor(paths, <<ModFolder(k)>> \o e.rel) :
                paths[j].absolute = ModRoot(k) \o e.rel

C19_Line(mod) ==
    LET name ==
          IF mod.url # "" THEN "[" \o mod.name \o "](" \o mod.url \o ")"
          ELSE IF mod.nexusId > 0
               THEN "[" \o mod.name \o "](https://nexusmods.com/" \o gameNexusName
                        \o "/mods/" \o IntStr(mod.nexusId) \o ")"
          ELSE mod.name
    IN  "- " \o name \o (IF mod.version # "" THEN " v" \o mod.version ELSE "") \o "\n"

\* The text the Markdown command produced, if it produced one.
MarkdownLines == IF tool = "markdown" THEN md_file ELSE clipboard

\* C19 as stated: the Markdown list has one line per mod, in the order of the
\* mods, each the line described by C19_Line.
C19_MarkdownRendering ==
    (tool \in {"markdown", "clip"} /\ MarkdownLines.written) =>
        /\ Len(MarkdownLines.lines) = Len(modinfo)
        /\ \A k \in 1..Len(modinfo) : MarkdownLines.lines[k] = C19_Line(modinfo[k])

\* The positions of the host's list the loop of active_mod_names has gone
\* through, and the position of a name in the list.
SeenHostMods ==
    IF helper.reverse_order THEN (Len(modlist) - mi + 1)..Len(modlist) ELSE 1..mi
HostPosition(name) == CHOOSE k \in 1..Len(modlist) : modlist[k].name = name

\* C20: of the host mods gone through, active_mod_names has yielded once each
\* those with the ACTIVE flag and, when include_separators is set, the
\* separators, and no other name; the names come in the host's priority
\* order, or in its reverse when reverse_order is set.
C20_ActiveModNames ==
    pc = "active_mod_names" =>
        /\ \A k \in 1..Len(modlist) :
              Count(yielded, modlist[k].name) =
                  IF /\ k \in SeenHostMods
                     /\ (modlist[k].active \/ (helper.include_separators /\ modlist[k].separator))
                  THEN 1 ELSE 0
        /\ \A j \in 1..Len(yielded) : \E k \in 1..Len(modlist) : modlist[k].name = yielded[j]
        /\ \A j1, j2 \in 1..Len(yielded) :
              j1 < j2 =>
                  IF helper.reverse_order
                  THEN HostPosition(yielded[j1]) > HostPosition(yielded[j2])
                  ELSE HostPosition(yielded[j1]) < HostPosition(yielded[j2])

C20_Witness ==
    /\ pc = "active_mod_names"
    /\ mi = Len(modlist)
    /\ helper.reverse_order
    /\ helper.include_separators
    /\ Len(yielded) >= 2
    /\ Len(yielded) < Len(modlist)
    /\ \E k \in 1..Len(modlist) :
          modlist[k].separator /\ ~modlist[k].active /\ Count(yielded, modlist[k].name) = 1
    /\ \E k \in 1..Len(modlist) : modlist[k].active /\ ~modlist[k].separator

\* C23 as stated: a folder export never creates, below the target, a folder
\* whose path relative to the target matches an exclusion glob, whatever the
\* entries below that folder match.
C23_FilteredFolderNeverCreated ==
    InFolderRun =>
        \A q \in TouchedBelowTarget :
            (q \in DOMAIN fs /\ is_dir(fs, q) /\ q \notin DOMAIN fs0) =>
                ~Filtered(RelativeTo(q, target_path), file_filter)

\* What lies below the roots of the mods, on file system f.
BelowModRoots(f) ==
    {q \in DOMAIN f : \E k \in 1..Len(mods) : IsPrefix(ModRoot(k), q)}

\* C29 as stated: a folder export leaves everything below the roots of the
\* mods as it was when the run began, for every target folder and every
\* choice of overwrite_existing and hardlinks: nothing there is created,
\* changed or deleted.
C29_SourcesReadOnly ==
    InFolderRun =>
        /\ BelowModRoots(fs) = BelowModRoots(fs0)
        /\ \A q \in BelowModRoots(fs0) : fs[q] = fs0[q]

\* The target folder held nothing when the run began.
EmptyTarget == \A q \in DOMAIN fs0 : IsPrefix(target_path, q) => q = target_path

\* C28 as stated: a merged-mode folder export into an empty target folder
\* never ends in an error of its own making (an operation the operating
\* system refuses, and a hard link to another volume, set aside), whatever
\* the trees of the mods are, and once it has completed every entry of the
\* map that no glob excludes is present on the target.
C28_MergedExportCompletes ==
    (/\ InFolderRun /\ contents /\ run = 1 /\ EmptyTarget
     /\ ~(hardlinks /\ Volume(target_path) # Volume(ModsPath))) =>
        /\ pc = "failed" => outcomes[Len(outcomes)] = "refused"
        /\ outcome = "completed" =>
              \A k \in 1..Len(paths) :
                  ~Filtered(paths[k].relative, file_filter) => exists(fs, TargetOf(k))

\* The entries gone through whose way out of the loop body was branch b.
WithOutcome(b) == {k \in 1..i : outcomes[k] = b}

C27_FilterGivenAsString ==
    (InFolderRun /\ file_filter_str) =>
        \A k \in 1..i :
            outcomes[k] = "skipped" <=> Filtered(paths[k].relative, file_filter)

\* The names the export was handed, the overwrite mod left aside.
ExportedHostMods == SelectSeq(call.active_mods, LAMBDA name : name # "overwrite")

C22_SingleSnapshot ==
    (pc = "called" /\ call.made) =>
        /\ Len(queries) = 1
        /\ ExportedHostMods = queries[1]

\* C24 as stated: the export is called with separators included only when
\* "Export separate mod folders" is the export type selected at accept; with
\* the virtual file tree selected no separator is among the mods exported.
C24_SeparatorsOnlyInSeparateFolders ==
    (pc = "called" /\ call.made) =>
        /\ call.include_separators => widgets.export_type = "mod-folder"
        /\ widgets.export_type = "mod-content" =>
              \A k \in 1..Len(modlist) :
                  (modlist[k].separator /\ ~modlist[k].active) =>
                      modlist[k].name \notin Range(call.active_mods)

\* C25: in the folder dialog "Use Hardlinks" is enabled exactly when the path
\* of the last directoryEntered or fileSelected signal has the drive of the
\* mods folder (and it is enabled before any signal); the export is called
\* with hardlinks=True exactly when the box is enabled and checked at accept,
\* and then the target folder has the drive of the mods folder.
C25_HardlinksSameDrive ==
    (tool = "folder" /\ widgets.built) =>
        /\ widgets.hardlinks_enabled <=> widgets.path_drive \in {NoDrive, modsPath_drive}
        /\ (pc = "called" /\ call.made) =>
              /\ widgets.path_drive = call.target_drive
              /\ call.hardlinks <=> (widgets.hardlinks_enabled /\ widgets.hardlinks)
              /\ call.hardlinks => call.target_drive = modsPath_drive

C25_Witness ==
    /\ tool = "folder"
    /\ pc = "called"
    /\ call.made
    /\ widgets.hardlinks
    /\ ~call.hardlinks
    /\ call.target_drive # modsPath_drive
    /\ settings["hardlinks"] = BoolV(TRUE)

\* What each widget holds, as the value its accept callback stores.
WidgetValues ==
    [key \in SettingKeys |->
        CASE key = "export-overwrite" -> BoolV(widgets.overwrite)
          [] key = "export-separators" -> BoolV(widgets.separators)
          [] key = "hardlinks" -> BoolV(widgets.hardlinks)
          [] key = "overwrite-exiting" -> BoolV(widgets.overwrite_existing)
          [] key = "export-type" -> StrV(widgets.export_type)
          [] key = "filter" -> StrV(widgets.filter)
          [] key = "compression" -> StrV(widgets.compression)
          [] key = "compression-level" -> IntV(widgets.level)]

\* C26: a dialog closed without accepting leaves the settings as they were,
\* calls no export, walks no tree and creates nothing; the settings change
\* in no step but the one that accepts the dialog, in which the callbacks
\* store each setting of the dialog once, before the export is called with
\* what the store then holds.
C26_RejectIsNoOp ==
    /\ [](outcome = "rejected" =>
            /\ pc = "done"
            /\ set_setting_calls = <<>>
            /\ ~call.made
            /\ Len(queries) = 1
            /\ paths = <<>> /\ ci = 0 /\ walked = {}
            /\ fs = fs0
            /\ zip_state = "none" /\ zip_file = <<>>)
    /\ [][(settings' # settings \/ set_setting_calls' # set_setting_calls) =>
              (pc = "dialog" /\ pc' = "called" /\ call'.made)]_vars
    /\ []((pc = "called" /\ call.made) =>
            /\ \A key \in KeysRead(tool) :
                  /\ Count(set_setting_calls, key) = 1
                  /\ settings[key] = WidgetValues[key]
            /\ \A k \in 1..Len(set_setting_calls) : set_setting_calls[k] \in KeysRead(tool)
            /\ call.filter = IF tool = "folder" THEN str(settings["filter"]) ELSE ""
            /\ call.contents = (settings["export-type"] = StrV("mod-content")))

C26_Witness ==
    /\ outcome = "rejected"
    /\ widgets.edits = 1
    /\ widgets.path_drive # NoDrive
    /\ settings # DefaultSettings
    /\ settings # WidgetValues


====
